---- MODULE Spec2Model ----
(***************************************************************************)
(* Model of the SvelteKit __data.json decoder of rco/helpers.py:           *)
(* unpack_svelte_payload (node selection) and unpack_data_array with its   *)
(* nested get_value (index resolution).                                    *)
(*                                                                         *)
(* JSON values are tagged records [t, v]: Python's dynamic types are kept  *)
(* as the tag, so that isinstance checks are modelled by what they accept. *)
(* A dict is a function from its keys (strings) to values; a list is a     *)
(* sequence.  Python index k of a list is element k+1 of the sequence.     *)
(***************************************************************************)
EXTENDS Integers, Sequences, FiniteSets, TLC

VARIABLES payload, pc, i, data_array, mapB, field_to_index, result

vars == <<payload, pc, i, data_array, mapB, field_to_index, result>>

(***************************************************************************)
(* Bounds of the model.                                                    *)
(***************************************************************************)
MaxNodes == 3
MaxCells == 3

(***************************************************************************)
(* JSON values as Python sees them after json.loads.                       *)
(***************************************************************************)
Null == [t |-> "null", v |-> 0]
I(n) == [t |-> "int", v |-> n]
S(s) == [t |-> "str", v |-> s]
B(b) == [t |-> "bool", v |-> b]
L(s) == [t |-> "list", v |-> s]
D(f) == [t |-> "dict", v |-> f]

EmptyDict == D(<<>>)
EmptyList == L(<<>>)

\* isinstance(x, dict), isinstance(x, list)
IsDict(x) == x.t = "dict"
IsList(x) == x.t = "list"

\* isinstance(x, int): bool is a subclass of int in Python, so True and
\* False pass the check and act as the integers 1 and 0.
IsInt(x) == x.t \in {"int", "bool"}
IntOf(x) == IF x.t = "bool" THEN (IF x.v THEN 1 ELSE 0) ELSE x.v

\* d.keys(), `k in d`, d.get(k) (None when the key is absent)
Keys(d) == DOMAIN d.v
Has(d, k) == k \in DOMAIN d.v
Get(d, k) == IF k \in DOMAIN d.v THEN d.v[k] ELSE Null

\* all(isinstance(v, int) for v in item.values())
AllIntValues(d) == \A k \in DOMAIN d.v : IsInt(d.v[k])
\* all(isinstance(i, int) for i in val)
AllIntElems(l) == \A k \in 1..Len(l.v) : IsInt(l.v[k])

(***************************************************************************)
(* Outcome of a call: nothing yet, a returned value, or a raised           *)
(* exception (class, message) with the source line that produced it.       *)
(***************************************************************************)
MsgInvalid == "Not a valid SvelteKit __data.json payload."
MsgNoNode == "No unpackable data node found."
MsgFirst == "Unexpected format: first element must be a dict of field->index."
MsgNoMap == "Could not find any mapping dicts in data array."
MsgNotCallable == "'ValueError' object is not callable"
MsgNotIterable == "object is not iterable"
MsgRecursion == "maximum recursion depth exceeded"

NoResult == [kind |-> "none", exc |-> "", msg |-> "", line |-> 0, val |-> Null]
Return(x, ln) == [kind |-> "return", exc |-> "", msg |-> "", line |-> ln, val |-> x]
Raise(e, m, ln) == [kind |-> "raise", exc |-> e, msg |-> m, line |-> ln, val |-> Null]

(***************************************************************************)
(* unpack_data_array, helpers.py:9-43.                                     *)
(***************************************************************************)

\* line 14: not data_array or not isinstance(data_array[0], dict)
FirstCheckFailsMutNoEmptyGuard(cells) ==
    IF Len(cells) = 0 THEN FALSE ELSE ~IsDict(cells[1])
FirstCheckFails(cells) == Len(cells) = 0 \/ ~IsDict(cells[1])

\* lines 19-22: the Python positions of the candidate mapping dicts, in
\* list order.  `item is not mapA` is an identity test: json.loads builds a
\* fresh object per cell, so it excludes position 0 and nothing else.
RECURSIVE CandidatesFrom(_, _)
CandidatesFrom(cells, k) ==
    IF k >= Len(cells) THEN <<>>
    ELSE IF IsDict(cells[k + 1]) /\ k # 0 /\ AllIntValues(cells[k + 1])
         THEN <<k>> \o CandidatesFrom(cells, k + 1)
         ELSE CandidatesFrom(cells, k + 1)

candidates(cells) == CandidatesFrom(cells, 0)

\* len(d)
DictLen(d) == Cardinality(DOMAIN d.v)

\* line 26: max(candidates, key=len) keeps the first item and replaces it
\* only by a strictly larger one.
RECURSIVE MaxFrom(_, _, _, _)
MaxFrom(cells, cands, k, best) ==
    IF k > Len(cands) THEN best
    ELSE IF DictLen(cells[cands[k] + 1]) > DictLen(cells[best + 1])
         THEN MaxFrom(cells, cands, k + 1, cands[k])
         ELSE MaxFrom(cells, cands, k + 1, best)

\* Python position of mapB; only used when candidates is non-empty
mapBIndex(cells) == MaxFrom(cells, candidates(cells), 2, candidates(cells)[1])

\* line 28: {**mapA, **mapB}
MergeMutPrimaryWins(a, b) ==
    D([k \in Keys(a) \cup Keys(b) |-> IF Has(a, k) THEN a.v[k] ELSE b.v[k]])
MergeMutSecondaryOnly(a, b) == b
Merge(a, b) ==
    D([k \in Keys(a) \cup Keys(b) |-> IF Has(b, k) THEN b.v[k] ELSE a.v[k]])

\* Marker of a resolution that never returns: get_value has no cycle guard,
\* so a cell reached again on its own path recurses until Python raises
\* RecursionError, which nothing catches.
Diverged == [t |-> "RecursionError", v |-> 0]

\* get_value that resolves one level only and leaves the cells it reaches
\* as they are
get_value_atMutShallow(cells, idx, depth) ==
    LET raw(x) == IF ~IsInt(x) \/ IntOf(x) < 0 \/ IntOf(x) >= Len(cells)
                  THEN Null ELSE cells[IntOf(x) + 1]
        val == raw(idx)
    IN IF IsDict(val) /\ AllIntValues(val)
       THEN D([f \in Keys(val) |-> raw(val.v[f])])
       ELSE IF IsList(val) /\ Len(val.v) > 0 /\ AllIntElems(val)
       THEN L([k \in 1..Len(val.v) |-> raw(val.v[k])])
       ELSE val

\* lines 30-41.  depth counts the container cells already entered on the
\* current path; more of them than there are cells means one is repeated.
RECURSIVE get_value_at(_, _, _)
get_value_at(cells, idx, depth) ==
    IF ~IsInt(idx) \/ IntOf(idx) < 0 \/ IntOf(idx) >= Len(cells) THEN Null
    ELSE LET val == cells[IntOf(idx) + 1] IN
         IF IsDict(val) /\ AllIntValues(val)
         THEN IF depth >= Len(cells) THEN Diverged
              ELSE LET r == [f \in Keys(val) |->
                               get_value_at(cells, val.v[f], depth + 1)]
                   IN IF \E f \in Keys(val) : r[f] = Diverged
                      THEN Diverged ELSE D(r)
         ELSE IF IsList(val) /\ Len(val.v) > 0 /\ AllIntElems(val)
         THEN IF depth >= Len(cells) THEN Diverged
              ELSE LET r == [k \in 1..Len(val.v) |->
                               get_value_at(cells, val.v[k], depth + 1)]
                   IN IF \E k \in 1..Len(val.v) : r[k] = Diverged
                      THEN Diverged ELSE L(r)
         ELSE val

get_value(cells, idx) == get_value_at(cells, idx, 0)

\* line 43: {field: get_value(idx) for field, idx in field_to_index.items()}
ResolveAll(cells, f2i) == [f \in Keys(f2i) |-> get_value(cells, f2i.v[f])]

(***************************************************************************)
(* unpack_svelte_payload, helpers.py:46-68.                                *)
(***************************************************************************)

\* line 52: payload.get("type") != "data" or "nodes" not in payload
PayloadCheckFails(p) == Get(p, "type") # S("data") \/ ~Has(p, "nodes")

\* Some enumeration of a finite set as a sequence (dict key order)
RECURSIVE SetToSeq(_)
SetToSeq(set) ==
    IF set = {} THEN <<>>
    ELSE LET x == CHOOSE y \in set : TRUE IN <<x>> \o SetToSeq(set \ {x})

\* line 55: what `for node in x` can iterate over: a list yields its items,
\* a dict its keys; None, numbers and booleans are not iterable.
Iterable(x) == x.t \in {"list", "dict"}
Items(x) ==
    IF IsList(x) THEN x.v
    ELSE LET ks == SetToSeq(Keys(x)) IN [k \in 1..Len(ks) |-> S(ks[k])]

\* payload.get("nodes", [])
NodesOf(p) == IF Has(p, "nodes") THEN p.v["nodes"] ELSE EmptyList

\* lines 57-60: the two structural `continue` tests
SkipNotDataNode(node) ==
    IF ~IsDict(node) THEN TRUE
    ELSE Get(node, "type") # S("data") \/ ~IsList(Get(node, "data"))

\* line 63: data_array and isinstance(data_array[0], dict)
\*          and 'profile' in data_array[0]
SkipProfileMutNever(cells) == FALSE
SkipProfile(cells) ==
    IF Len(cells) > 0 /\ IsDict(cells[1]) THEN Has(cells[1], "profile") ELSE FALSE

\* lines 57-64: does the iteration over this node end in `continue`?
Skips(node) ==
    IF SkipNotDataNode(node) THEN TRUE ELSE SkipProfile(Get(node, "data").v)

\* line 52-53
CheckPayload ==
    /\ pc = "start"
    /\ IF PayloadCheckFails(payload)
       THEN /\ result' = Raise("ValueError", MsgInvalid, 53)
            /\ pc' = "done"
       ELSE /\ result' = result
            /\ pc' = "for"
    /\ UNCHANGED <<payload, i, data_array, mapB, field_to_index>>

\* line 55: entering the loop; iter() of a non-iterable raises TypeError
ForNodes ==
    /\ pc = "for"
    /\ IF Iterable(NodesOf(payload))
       THEN /\ pc' = "loop"
            /\ i' = 0
            /\ result' = result
       ELSE /\ pc' = "done"
            /\ i' = i
            /\ result' = Raise("TypeError", MsgNotIterable, 55)
    /\ UNCHANGED <<payload, data_array, mapB, field_to_index>>

\* lines 55-64: one iteration that ends in `continue`
SkipNode ==
    /\ pc = "loop"
    /\ i < Len(Items(NodesOf(payload)))
    /\ Skips(Items(NodesOf(payload))[i + 1])
    /\ i' = i + 1
    /\ UNCHANGED <<payload, pc, data_array, mapB, field_to_index, result>>

\* lines 55-66: the iteration that reaches the call of unpack_data_array
SelectNode ==
    /\ pc = "loop"
    /\ i < Len(Items(NodesOf(payload)))
    /\ ~Skips(Items(NodesOf(payload))[i + 1])
    /\ data_array' = Items(NodesOf(payload))[i + 1].v["data"].v
    /\ pc' = "unpack"
    /\ UNCHANGED <<payload, i, mapB, field_to_index, result>>

\* line 68: raise ValueError("...")("...") calls the freshly built exception
\* instance; an exception instance is not callable, so the statement raises
\* TypeError before any ValueError is raised.  Lines 70-76 are unreachable.
LoopExhausted ==
    /\ pc = "loop"
    /\ i = Len(Items(NodesOf(payload)))
    /\ result' = Raise("TypeError", MsgNotCallable, 68)
    /\ pc' = "done"
    /\ UNCHANGED <<payload, i, data_array, mapB, field_to_index>>

\* lines 14-16
CheckFirst ==
    /\ pc = "unpack"
    /\ IF FirstCheckFails(data_array)
       THEN /\ result' = Raise("ValueError", MsgFirst, 15)
            /\ pc' = "done"
       ELSE /\ result' = result
            /\ pc' = "candidates"
    /\ UNCHANGED <<payload, i, data_array, mapB, field_to_index>>

\* lines 19-28
ChooseMapB ==
    /\ pc = "candidates"
    /\ IF Len(candidates(data_array)) = 0
       THEN /\ result' = Raise("ValueError", MsgNoMap, 24)
            /\ pc' = "done"
            /\ UNCHANGED <<mapB, field_to_index>>
       ELSE /\ mapB' = data_array[mapBIndex(data_array) + 1]
            /\ field_to_index' = Merge(data_array[1], mapB')
            /\ result' = result
            /\ pc' = "resolve"
    /\ UNCHANGED <<payload, i, data_array>>

\* line 43 (with get_value, lines 30-41)
Resolve ==
    /\ pc = "resolve"
    /\ LET r == ResolveAll(data_array, field_to_index) IN
         result' = IF \E f \in DOMAIN r : r[f] = Diverged
                   THEN Raise("RecursionError", MsgRecursion, 37)
                   ELSE Return(D(r), 43)
    /\ pc' = "done"
    /\ UNCHANGED <<payload, i, data_array, mapB, field_to_index>>

(***************************************************************************)
(* Inputs.  Cells cover every kind of cell the decoder tells apart, and    *)
(* every kind of index: valid, negative, past the end, boolean, string,    *)
(* null, mapping and list.                                                 *)
(***************************************************************************)
IdxVals == {I(-1), I(0), I(1), I(2), I(3), B(TRUE), S("x"), Null}

Cells ==
    {Null, S("x"), I(7)}
    \cup {EmptyList, L(<<S("x")>>), L(<<I(1), S("x")>>), L(<<I(1), I(2)>>)}
    \cup {L(<<x>>) : x \in {I(0), I(1), I(2), B(TRUE)}}
    \cup {EmptyDict, D("b" :> I(2)), D("a" :> I(1) @@ "b" :> I(2)),
          D("a" :> I(2) @@ "b" :> I(1))}
    \cup {D("a" :> x) : x \in IdxVals \cup {EmptyDict, EmptyList}}

\* the worked examples of the decoder's description
ScenarioArrays ==
    { <<D("id" :> I(1) @@ "items" :> I(2)), L(<<S("a"), S("b")>>), EmptyDict>>,
      <<EmptyDict, D("ticker" :> I(3) @@ "strike" :> I(4)), D("x" :> I(5)),
        S("PETR4"), I(30), S("v")>>,
      <<EmptyDict, D("x" :> I(5)), D("ticker" :> I(3) @@ "strike" :> I(4)),
        S("PETR4"), I(30), S("v")>> }

CellArrays == UNION {[1..n -> Cells] : n \in 0..MaxCells} \cup ScenarioArrays

\* data sequences carried by the nodes of a payload
NodeArrays ==
    { <<>>,
      <<S("x")>>,
      <<D("a" :> I(1))>>,
      <<D("a" :> I(1)), EmptyDict>>,
      <<D("a" :> I(1)), D("b" :> I(2)), S("x")>>,
      <<D("profile" :> I(1)), Null>>,
      <<D("profile" :> I(1)), D("b" :> I(2)), S("x")>> }

Nodes ==
    {Null, D("type" :> S("skip")), D("type" :> S("data")),
     D("type" :> S("data") @@ "data" :> Null),
     D("type" :> S("skip") @@ "data" :> L(<<D("a" :> I(1)), EmptyDict>>))}
    \cup {D("type" :> S("data") @@ "data" :> L(c)) : c \in NodeArrays}

NodeLists == UNION {[1..n -> Nodes] : n \in 0..MaxNodes}

Payloads ==
    {D("type" :> t) : t \in {S("data"), S("skip")}}
    \cup {D("nodes" :> L(ns)) : ns \in {<<>>, <<D("type" :> S("data") @@
                                          "data" :> L(<<D("a" :> I(1)), EmptyDict>>))>>}}
    \cup {D("type" :> S("skip") @@ "nodes" :> n) :
             n \in {Null, EmptyList, L(<<D("type" :> S("data") @@
                                          "data" :> L(<<D("a" :> I(1)), EmptyDict>>))>>)}}
    \cup {D("type" :> S("data") @@ "nodes" :> n) :
             n \in {Null, I(7), EmptyDict, D("a" :> Null)}}
    \cup {D("type" :> S("data") @@ "nodes" :> L(ns)) : ns \in NodeLists}

(***************************************************************************)
(* Specifications.  Spec: one call of unpack_svelte_payload on any         *)
(* payload.  SpecCells: one call of unpack_data_array on any Cell Array.   *)
(***************************************************************************)
Init ==
    /\ payload \in Payloads
    /\ pc = "start"
    /\ i = 0
    /\ data_array = <<>>
    /\ mapB = Null
    /\ field_to_index = Null
    /\ result = NoResult

InitCells ==
    /\ payload = Null
    /\ pc = "unpack"
    /\ i = 0
    /\ data_array \in CellArrays
    /\ mapB = Null
    /\ field_to_index = Null
    /\ result = NoResult

NextCells == CheckFirst \/ ChooseMapB \/ Resolve

Next ==
    \/ CheckPayload
    \/ ForNodes
    \/ SkipNode
    \/ SelectNode
    \/ LoopExhausted
    \/ CheckFirst
    \/ ChooseMapB
    \/ Resolve

Spec == Init /\ [][Next]_vars

SpecCells == InitCells /\ [][NextCells]_vars

TypeOK ==
    /\ pc \in {"start", "for", "loop", "unpack", "candidates", "resolve", "done"}
    /\ i \in 0..MaxNodes
    /\ result.kind \in {"none", "return", "raise"}
    /\ (pc = "done") = (result.kind # "none")

(***************************************************************************)
(* Vocabulary of the properties.                                           *)
(***************************************************************************)

\* the call went through unpack_svelte_payload
ViaPayload == payload # Null

\* a payload with the "data" marker and a list of nodes
WellFormed(p) ==
    IF ~IsDict(p) THEN FALSE
    ELSE IF Get(p, "type") # S("data") THEN FALSE
    ELSE IF ~Has(p, "nodes") THEN FALSE
    ELSE IsList(p.v["nodes"])

\* a node that is a mapping, has type "data", has a list-valued data field
\* and whose first data cell is not a mapping containing `profile`
QualifyingNode(n) ==
    IF ~IsDict(n) THEN FALSE
    ELSE IF Get(n, "type") # S("data") THEN FALSE
    ELSE IF ~IsList(Get(n, "data")) THEN FALSE
    ELSE IF Len(Get(n, "data").v) = 0 THEN TRUE
    ELSE IF ~IsDict(Get(n, "data").v[1]) THEN TRUE
    ELSE "profile" \notin Keys(Get(n, "data").v[1])

QualifyingPositions(p) ==
    {k \in 0..(Len(p.v["nodes"].v) - 1) : QualifyingNode(p.v["nodes"].v[k + 1])}

FirstQualifying(p) ==
    CHOOSE k \in QualifyingPositions(p) : \A j \in QualifyingPositions(p) : k <= j

\* a node has been handed to unpack_data_array
Selected ==
    \/ pc \in {"unpack", "candidates", "resolve"}
    \/ pc = "done" /\ result.line \in {15, 24, 37, 43}

\* C1: on a payload of type "data" with a node list holding a qualifying
\* node, the node handed to the cell-array decoder is the first qualifying
\* one in node order: the loop never runs past it, and the call ends in
\* that node's decode.
C1_FirstQualifyingNodeSelected ==
    (ViaPayload /\ WellFormed(payload) /\ QualifyingPositions(payload) # {}) =>
        LET q == FirstQualifying(payload) IN
        /\ pc = "loop" => i <= q
        /\ Selected => i = q /\ data_array = payload.v["nodes"].v[q + 1].v["data"].v
        /\ pc = "done" => Selected

\* a profile node is skipped before the selected node and another
\* qualifying node, with different data, follows it
C1_Witness ==
    /\ ViaPayload /\ WellFormed(payload)
    /\ pc = "done" /\ result.kind = "return" /\ i = 1
    /\ Len(payload.v["nodes"].v) = 3
    /\ IsDict(payload.v["nodes"].v[1])
    /\ Get(payload.v["nodes"].v[1], "type") = S("data")
    /\ IsList(Get(payload.v["nodes"].v[1], "data"))
    /\ ~QualifyingNode(payload.v["nodes"].v[1])
    /\ QualifyingNode(payload.v["nodes"].v[3])
    /\ payload.v["nodes"].v[3] # payload.v["nodes"].v[2]

\* the call went through unpack_data_array and returned a record
Returned == pc = "done" /\ result.kind = "return"

\* C2: the keys of the returned mapping are the union of the keys of cell 0
\* and of the chosen secondary map.
C2_KeysAreUnion ==
    Returned => Keys(result.val) = Keys(data_array[1]) \cup Keys(mapB)

\* both maps contribute a key the other lacks
C2_Witness ==
    /\ Returned
    /\ Keys(data_array[1]) \ Keys(mapB) # {}
    /\ Keys(mapB) \ Keys(data_array[1]) # {}

\* field names present in both maps with different indices
Collisions ==
    {f \in Keys(data_array[1]) \cap Keys(mapB) : data_array[1].v[f] # mapB.v[f]}

\* C3: a field present in both maps with different indices gets the
\* resolution of the secondary map's index.
C3_SecondaryIndexWins ==
    Returned => \A f \in Collisions :
                   result.val.v[f] = get_value(data_array, mapB.v[f])

\* a collision whose two indices resolve to different values
C3_Witness ==
    /\ Returned
    /\ \E f \in Collisions :
          get_value(data_array, data_array[1].v[f]) # get_value(data_array, mapB.v[f])

\* an index that is not an integer, is negative, or is past the end
BadIndex(cells, x) == IF x.t # "int" THEN TRUE ELSE x.v < 0 \/ x.v >= Len(cells)

\* C4: every field of the merged top-level map whose index is not an
\* integer, is negative or is past the end of the Cell Array resolves
\* to null.
C4_BadIndexResolvesToNull ==
    Returned => \A f \in Keys(field_to_index) :
                   BadIndex(data_array, field_to_index.v[f]) => result.val.v[f] = Null

\* C5: a payload of type "data" whose node list holds no qualifying node
\* ends in the "No unpackable data node found." ValueError.
C5_NoRecordNodeError ==
    (ViaPayload /\ WellFormed(payload) /\ QualifyingPositions(payload) = {}
       /\ pc = "done")
    => result.kind = "raise" /\ result.exc = "ValueError" /\ result.msg = MsgNoNode

\* a payload whose type is not "data" or that exposes no node sequence
Malformed(p) ==
    IF Get(p, "type") # S("data") THEN TRUE
    ELSE IF ~Has(p, "nodes") THEN TRUE
    ELSE ~IsList(p.v["nodes"])

\* C6: a payload whose type is not "data", or whose nodes are absent or not
\* a sequence, ends in the "Not a valid SvelteKit __data.json payload."
\* ValueError with no node examined.
C6_MalformedPayloadError ==
    (ViaPayload /\ pc = "done" /\ Malformed(payload))
    => /\ result.kind = "raise" /\ result.exc = "ValueError"
       /\ result.msg = MsgInvalid
       /\ i = 0 /\ data_array = <<>>

\* element 0 of the Cell Array is missing or is not a mapping
FirstNotMapping(cells) == IF Len(cells) = 0 THEN TRUE ELSE cells[1].t # "dict"

\* C7: a Cell Array whose element 0 is not a mapping, or that has no
\* element, ends in the "Unexpected format" ValueError; no field map is
\* chosen and no record is built.
C7_FirstCellMustBeMapping ==
    (pc = "done" /\ ~ViaPayload /\ FirstNotMapping(data_array))
    => /\ result = Raise("ValueError", MsgFirst, 15)
       /\ mapB = Null /\ field_to_index = Null

\* element 0 is a scalar although the array holds a candidate field map
C7_Witness ==
    /\ pc = "done" /\ ~ViaPayload
    /\ Len(data_array) >= 2 /\ ~IsDict(data_array[1])
    /\ Len(candidates(data_array)) > 0

\* positions of the mapping cells other than cell 0 whose every value is an
\* integer
FieldMapPositions(cells) ==
    {k \in 1..(Len(cells) - 1) :
        IF cells[k + 1].t # "dict" THEN FALSE
        ELSE \A f \in Keys(cells[k + 1]) : cells[k + 1].v[f].t = "int"}

\* C8: the secondary map is the field map with the most entries, the first
\* one in Cell Array order among those of the largest size.
C8_LargestFirstCandidateChosen ==
    (mapB # Null) =>
        \E k \in FieldMapPositions(data_array) :
            /\ mapB = data_array[k + 1]
            /\ \A j \in FieldMapPositions(data_array) :
                  \/ DictLen(data_array[j + 1]) < DictLen(data_array[k + 1])
                  \/ DictLen(data_array[j + 1]) = DictLen(data_array[k + 1]) /\ k <= j

\* a cell that the claim lets through unchanged: a scalar, null, an empty
\* list, an empty mapping, or a list with a non-integer element
PassthroughCell(c) ==
    \/ c.t \in {"str", "int", "bool", "null"}
    \/ c = EmptyList
    \/ c = EmptyDict
    \/ c.t = "list" /\ \E k \in 1..Len(c.v) : c.v[k].t # "int"

ExampleArray ==
    <<D("id" :> I(1) @@ "items" :> I(2)), L(<<S("a"), S("b")>>), EmptyDict>>

\* C9: a field whose index points at a scalar, null, an empty list, an
\* empty mapping or a list with a non-integer element gets that cell
\* unchanged, and the example array decodes to
\* {"id": ["a","b"], "items": {}}.
C9_PassthroughCells ==
    /\ Returned =>
          \A f \in Keys(field_to_index) :
             LET x == field_to_index.v[f] IN
             (~BadIndex(data_array, x) /\ PassthroughCell(data_array[x.v + 1]))
                => result.val.v[f] = data_array[x.v + 1]
    /\ (pc = "done" /\ data_array = ExampleArray) =>
          result = Return(D("id" :> L(<<S("a"), S("b")>>) @@ "items" :> EmptyDict), 43)

\* a node that is not a data node, is a profile node, or is a data node
\* whose data sequence is empty
NonRecordNode(n) ==
    IF ~QualifyingNode(n) THEN TRUE ELSE Len(Get(n, "data").v) = 0

\* C11: when every node is a non-data node, a profile node or a data node
\* with an empty data sequence, no node is handed to the cell-array decoder
\* and the call ends in the "No unpackable data node found." ValueError.
C11_EmptyDataNodeSkipped ==
    (ViaPayload /\ WellFormed(payload)
       /\ \A k \in 1..Len(payload.v["nodes"].v) :
             NonRecordNode(payload.v["nodes"].v[k]))
    => /\ ~Selected
       /\ pc = "done" =>
             result.kind = "raise" /\ result.exc = "ValueError"
             /\ result.msg = MsgNoNode

\* the decode reached the resolution of the fields (line 43)
Resolved == pc = "done" /\ result.line \in {37, 43}

\* C12: the resolution of the fields of any Cell Array, cyclic ones
\* included, ends by returning a value.
C12_ResolutionReturns == Resolved => result.kind = "return"

\* a mapping cell whose every value is an integer; a non-empty list cell
\* whose every element is an integer
StrictFieldMap(c) ==
    IF c.t # "dict" THEN FALSE ELSE \A f \in Keys(c) : c.v[f].t = "int"
StrictIndexList(c) ==
    IF c.t # "list" THEN FALSE
    ELSE Len(c.v) > 0 /\ \A k \in 1..Len(c.v) : c.v[k].t = "int"

\* v is a full dereference of the integer index x: null past either end, a
\* mapping with the same keys over the dereferences of a field map's
\* indices, a list of the same length over those of an index list's
\* elements, the cell itself for a scalar
RECURSIVE IsResolution(_, _, _)
IsResolution(cells, x, v) ==
    IF x.v < 0 \/ x.v >= Len(cells) THEN v = Null
    ELSE LET c == cells[x.v + 1] IN
         IF StrictFieldMap(c)
         THEN IF v.t # "dict" THEN FALSE
              ELSE IF Keys(v) # Keys(c) THEN FALSE
              ELSE \A f \in Keys(c) : IsResolution(cells, c.v[f], v.v[f])
         ELSE IF StrictIndexList(c)
         THEN IF v.t # "list" THEN FALSE
              ELSE IF Len(v.v) # Len(c.v) THEN FALSE
              ELSE \A k \in 1..Len(c.v) : IsResolution(cells, c.v[k], v.v[k])
         ELSE IF c.t \in {"dict", "list"} THEN TRUE
         ELSE v = c

\* C13: in a returned record every field with an integer index holds the
\* full dereference of that index: field maps and index lists are resolved
\* entry by entry, in order, at every depth.
C13_FullyDereferenced ==
    Returned => \A f \in Keys(field_to_index) :
                   field_to_index.v[f].t = "int"
                      => IsResolution(data_array, field_to_index.v[f], result.val.v[f])

\* a field resolves through an index list to a non-empty field map
C13_Witness ==
    /\ Returned
    /\ \E f \in Keys(field_to_index) :
          LET x == field_to_index.v[f] IN
          /\ ~BadIndex(data_array, x)
          /\ StrictIndexList(data_array[x.v + 1])
          /\ \E k \in 1..Len(data_array[x.v + 1].v) :
                LET y == data_array[x.v + 1].v[k] IN
                /\ ~BadIndex(data_array, y)
                /\ StrictFieldMap(data_array[y.v + 1])
                /\ Keys(data_array[y.v + 1]) # {}

\* C14: with a mapping in cell 0, the decode ends in the "Could not find
\* any mapping dicts" ValueError exactly when no other cell is a mapping
\* whose every value is an integer; when the only such cells are empty
\* mappings the secondary map is the empty mapping.
C14_NoFieldMapError ==
    (pc = "done" /\ ~ViaPayload /\ ~FirstNotMapping(data_array))
    => /\ (result = Raise("ValueError", MsgNoMap, 24))
             = (FieldMapPositions(data_array) = {})
       /\ (/\ FieldMapPositions(data_array) # {}
           /\ \A k \in FieldMapPositions(data_array) : data_array[k + 1] = EmptyDict)
          => mapB = EmptyDict

====
